---- MODULE Spec2Model ----
(***************************************************************************)
(* Model of shorelark's neural network (libs/neural-network/src/lib.rs)   *)
(* and of the simulation orchestrator (libs/simulation/src/lib.rs,        *)
(* brain.rs).                                                              *)
(*                                                                         *)
(* f32 scalars are fixed-point integers counting thousandths: 1.0 is 1000, *)
(* SPEED_MIN = 0.001 is 1, the eating threshold 0.013 is 13.  Positions    *)
(* are points of that grid, angles are milliradians.                       *)
(***************************************************************************)
EXTENDS Integers, Sequences, FiniteSets, TLC

VARIABLES
    \* ---- neural-network harness (SpecNN) ----
    nnTopology,   \* the &[LayerTopology] handed to random / from_weights
    nnGenome,     \* the scalars handed to from_weights
    nnNet,        \* Network.layers of the network built last (<<>> before)
    nnStatus,     \* "new", then the constructor called last, "<name>_panicked" if it failed
    nnErr,        \* panic message of the last constructor call, "none" otherwise
    nnFlat,       \* [done, val]: weights() of the network built first;
                  \* [redone, reval]: weights() of the network built from val
    nnRes,        \* [done, inputs, err, val]: result of the last propagate() call
    \* ---- simulation (Spec, SpecGen) ----
    age,          \* Simulation.age
    animals,      \* World.animals
    foods,        \* World.foods
    pc,           \* "idle", or "train" while train()'s loop is running
    ret,          \* what the last step()/train() call returned
    obs,          \* observations of the last step: values between the phases
    calls,        \* number of API calls made (explored prefix length)
    stepCount,    \* number of step() calls since construction (saturating)
    someCount,    \* number of those calls that returned Some (saturating)
    trainDue      \* loop iterations train() still owes, see TrainBegin

nnVars  == <<nnTopology, nnGenome, nnNet, nnStatus, nnErr, nnFlat, nnRes>>
simVars == <<age, animals, foods, pc, ret, obs, calls, stepCount, someCount, trainDue>>
vars    == <<nnTopology, nnGenome, nnNet, nnStatus, nnErr, nnFlat, nnRes,
             age, animals, foods, pc, ret, obs, calls, stepCount, someCount, trainDue>>

(***************************************************************************)
(* Bounds                                                                  *)
(***************************************************************************)
\* largest neuron count of a layer in the explored topologies
MaxNeurons == 2
\* longest topology explored (shortest is 2, the assertion's limit)
MaxLayers == 3
\* longest genome handed to from_weights
MaxGenomeLen == 5
\* longest input vector handed to propagate
MaxInputLen == 2
\* World::random: number of animals and of foods
NumAnimals == 1
NumFoods == 1
\* Eye::cells
EyeCells == 1
\* period of the rng streams handed to step and train; the streams handed to
\* Simulation::random are one longer
StreamLen == 1
\* number of step()/train() calls explored from each initial state of Spec
MaxCalls == 1

(***************************************************************************)
(* Scalars                                                                 *)
(***************************************************************************)
\* 1.0 on the fixed-point grid
One == 1000

\* f32 multiplication on the grid, rounded to the nearest grid value
Mul(a, b) == (a * b + One \div 2) \div One

\* f32::max
Max(a, b) == IF a >= b THEN a ELSE b

\* f32::min
Min(a, b) == IF a <= b THEN a ELSE b

\* f32::clamp
Clamp(v, lo, hi) == Max(lo, Min(v, hi))

\* values of weights and biases explored, all within [-1.0, 1.0]
GeneValues == {-1000, 500}

\* values of input scalars explored
InputValues == {-1000, 1000}

RECURSIVE Collect(_, _)
\* iterator.collect(): the Vec of the first n items of f
Collect(f, n) == IF n = 0 THEN <<>> ELSE Append(Collect(f, n - 1), f[n])

RECURSIVE SeqsUpTo(_, _)
\* all sequences over S of length at most n
SeqsUpTo(S, n) ==
    IF n = 0 THEN {<<>>}
    ELSE LET shorter == SeqsUpTo(S, n - 1)
         IN  shorter \cup {Append(s, x) : s \in {t \in shorter : Len(t) = n - 1}, x \in S}

(***************************************************************************)
(* Neuron                                                                  *)
(***************************************************************************)
NoNeuron == [bias |-> 0, weights |-> <<>>]

NotEnough == "got not enough weights"
TooMany   == "got too many weights"
BadTopology == "assertion failed: layers.len() > 1"
LenMismatch == "assertion failed: inputs.len() == self.weights.len()"

\* Neuron::from_weights reading the bias after the weights
NeuronFromWeights_BiasLast(input_size, ws) ==
    IF Len(ws) - 1 < input_size
    THEN [err |-> NotEnough, val |-> NoNeuron, rest |-> <<>>]
    ELSE [err  |-> "none",
          val  |-> [bias |-> ws[input_size + 1], weights |-> SubSeq(ws, 1, input_size)],
          rest |-> SubSeq(ws, input_size + 2, Len(ws))]

\* Neuron::from_weights: one bias, then input_size weights, each taken with
\* next().expect(..); rest is what the iterator still holds afterwards
NeuronFromWeights(input_size, ws) ==
    IF Len(ws) = 0
    THEN [err |-> NotEnough, val |-> NoNeuron, rest |-> <<>>]
    ELSE IF Len(ws) - 1 < input_size
    THEN [err |-> NotEnough, val |-> NoNeuron, rest |-> <<>>]
    ELSE [err  |-> "none",
          val  |-> [bias |-> ws[1], weights |-> SubSeq(ws, 2, input_size + 1)],
          rest |-> SubSeq(ws, input_size + 2, Len(ws))]

RECURSIVE DotFrom(_, _, _)
\* inputs.iter().zip(&self.weights).map(|(i, w)| i * w).sum()
DotFrom(inputs, weights, i) ==
    IF i > Len(inputs) \/ i > Len(weights) THEN 0
    ELSE Mul(inputs[i], weights[i]) + DotFrom(inputs, weights, i + 1)

\* Neuron::propagate without the rectifier
NeuronPropagate_NoFloor(neuron, inputs) ==
    IF Len(inputs) # Len(neuron.weights)
    THEN [err |-> LenMismatch, val |-> 0]
    ELSE [err |-> "none", val |-> neuron.bias + DotFrom(inputs, neuron.weights, 1)]

\* Neuron::propagate without the length assertion: zip stops at the shorter side
NeuronPropagate_NoAssert(neuron, inputs) ==
    [err |-> "none", val |-> Max(neuron.bias + DotFrom(inputs, neuron.weights, 1), 0)]

\* Neuron::propagate
NeuronPropagate(neuron, inputs) ==
    IF Len(inputs) # Len(neuron.weights)
    THEN [err |-> LenMismatch, val |-> 0]
    ELSE [err |-> "none", val |-> Max(neuron.bias + DotFrom(inputs, neuron.weights, 1), 0)]

\* Neuron::random: bias, then input_size weights, drawn from the stream in order
NeuronRandom(stream, at, input_size) ==
    [bias    |-> stream[((at - 1) % Len(stream)) + 1],
     weights |-> Collect([k \in 1..input_size |-> stream[((at + k - 1) % Len(stream)) + 1]],
                         input_size)]

(***************************************************************************)
(* Layer                                                                   *)
(***************************************************************************)
RECURSIVE LayerFromWeightsFrom(_, _, _, _)
\* Layer::from_weights, neurons k..output_size built onto acc
LayerFromWeightsFrom(input_size, left, ws, acc) ==
    IF left = 0 THEN [err |-> "none", val |-> acc, rest |-> ws]
    ELSE LET n == NeuronFromWeights(input_size, ws)
         IN  IF n.err # "none"
             THEN [err |-> n.err, val |-> <<>>, rest |-> <<>>]
             ELSE LayerFromWeightsFrom(input_size, left - 1, n.rest, Append(acc, n.val))

\* Layer::from_weights
LayerFromWeights(input_size, output_size, ws) ==
    LayerFromWeightsFrom(input_size, output_size, ws, <<>>)

\* Layer::propagate: every neuron sees the same inputs; a panic of any neuron
\* is the layer's panic
LayerPropagate(layer, inputs) ==
    LET outs == Collect([k \in 1..Len(layer) |-> NeuronPropagate(layer[k], inputs)],
                        Len(layer))
    IN  IF \E k \in 1..Len(layer) : outs[k].err # "none"
        THEN [err |-> LenMismatch, val |-> <<>>]
        ELSE [err |-> "none", val |-> Collect([k \in 1..Len(layer) |-> outs[k].val], Len(layer))]

\* Layer::random
LayerRandom(stream, at, input_size, output_size) ==
    Collect([k \in 1..output_size |->
                NeuronRandom(stream, at + (k - 1) * (input_size + 1), input_size)],
            output_size)

(***************************************************************************)
(* Network                                                                 *)
(***************************************************************************)
RECURSIVE NetworkFromWeightsFrom(_, _, _, _)
\* layers.windows(2).map(Layer::from_weights).collect(), from window i on
NetworkFromWeightsFrom(layers, i, ws, acc) ==
    IF i >= Len(layers) THEN [err |-> "none", val |-> acc, rest |-> ws]
    ELSE LET l == LayerFromWeights(layers[i], layers[i + 1], ws)
         IN  IF l.err # "none"
             THEN [err |-> l.err, val |-> <<>>, rest |-> <<>>]
             ELSE NetworkFromWeightsFrom(layers, i + 1, l.rest, Append(acc, l.val))

\* Network::from_weights without the check for leftover weights
NetworkFromWeights_Truncating(layers, ws) ==
    IF ~(Len(layers) > 1) THEN [err |-> BadTopology, val |-> <<>>]
    ELSE LET r == NetworkFromWeightsFrom(layers, 1, ws, <<>>)
         IN  IF r.err # "none" THEN [err |-> r.err, val |-> <<>>]
             ELSE [err |-> "none", val |-> r.val]

\* Network::from_weights
NetworkFromWeights(layers, ws) ==
    IF ~(Len(layers) > 1) THEN [err |-> BadTopology, val |-> <<>>]
    ELSE LET r == NetworkFromWeightsFrom(layers, 1, ws, <<>>)
         IN  IF r.err # "none" THEN [err |-> r.err, val |-> <<>>]
             ELSE IF Len(r.rest) > 0 THEN [err |-> TooMany, val |-> <<>>]
             ELSE [err |-> "none", val |-> r.val]

RECURSIVE FlattenNeurons(_, _)
\* once(&neuron.bias).chain(&neuron.weights) over the neurons k.. of a layer
FlattenNeurons(layer, k) ==
    IF k > Len(layer) THEN <<>>
    ELSE <<layer[k].bias>> \o layer[k].weights \o FlattenNeurons(layer, k + 1)

RECURSIVE NetworkWeightsFrom(_, _)
\* Network::weights over the layers i..
NetworkWeightsFrom(net, i) ==
    IF i > Len(net) THEN <<>>
    ELSE FlattenNeurons(net[i], 1) \o NetworkWeightsFrom(net, i + 1)

\* Network::weights
NetworkWeights(net) == NetworkWeightsFrom(net, 1)

RECURSIVE NetworkPropagateFrom(_, _, _)
\* self.layers.iter().fold(inputs, |inputs, layer| layer.propagate(inputs))
NetworkPropagateFrom(net, i, inputs) ==
    IF i > Len(net) THEN [err |-> "none", val |-> inputs]
    ELSE LET r == LayerPropagate(net[i], inputs)
         IN  IF r.err # "none" THEN r
             ELSE NetworkPropagateFrom(net, i + 1, r.val)

\* Network::propagate
NetworkPropagate(net, inputs) == NetworkPropagateFrom(net, 1, inputs)

RECURSIVE RequiredFrom(_, _)
\* number of scalars the windows i.. of a topology consume
RequiredFrom(layers, i) ==
    IF i >= Len(layers) THEN 0
    ELSE (layers[i] + 1) * layers[i + 1] + RequiredFrom(layers, i + 1)

\* Network::random
NetworkRandom(stream, layers) ==
    IF ~(Len(layers) > 1) THEN [err |-> BadTopology, val |-> <<>>]
    ELSE [err |-> "none",
          val |-> Collect([i \in 1..(Len(layers) - 1) |->
                             LayerRandom(stream, 1 + RequiredFrom(SubSeq(layers, 1, i), 1),
                                         layers[i], layers[i + 1])],
                          Len(layers) - 1)]

(***************************************************************************)
(* Neural-network harness: the inputs are drawn in NNInit, every action    *)
(* applies one public function of Network and records what it returned.    *)
(***************************************************************************)
\* topologies explored, the too-short ones the assertion rejects included
Topologies == {t \in SeqsUpTo(0..MaxNeurons, MaxLayers) : Len(t) >= 1}

\* genomes explored
Genomes == SeqsUpTo(GeneValues, MaxGenomeLen)

\* input vectors explored
InputVectors == SeqsUpTo(InputValues, MaxInputLen)

\* outcomes of the caller's rng explored by Network::random: the stream of
\* random_range(-1.0..=1.0) draws, repeated cyclically
RandStreams == {<<-1000>>, <<500>>, <<1000, -1000>>, <<500, -1000, 0>>}

NoFlat == [done |-> FALSE, val |-> <<>>, redone |-> FALSE, reval |-> <<>>]
NoRes  == [done |-> FALSE, inputs |-> <<>>, err |-> "none", val |-> <<>>]

NNIdle ==
    /\ nnTopology = <<1, 1>>
    /\ nnGenome = <<>>
    /\ nnNet = <<>>
    /\ nnStatus = "new"
    /\ nnErr = "none"
    /\ nnFlat = NoFlat
    /\ nnRes = NoRes

NNInit ==
    /\ nnTopology \in Topologies
    /\ nnGenome \in Genomes
    /\ nnNet = <<>>
    /\ nnStatus = "new"
    /\ nnErr = "none"
    /\ nnFlat = NoFlat
    /\ nnRes = NoRes

\* Network::random(rng, &nnTopology), which takes no genome
NNRandom ==
    /\ nnStatus = "new"
    /\ nnGenome = <<>>
    /\ \E stream \in RandStreams :
         LET r == NetworkRandom(stream, nnTopology)
         IN  /\ nnNet' = r.val
             /\ nnErr' = r.err
             /\ nnStatus' = IF r.err = "none" THEN "random" ELSE "random_panicked"
    /\ nnFlat' = NoFlat
    /\ nnRes' = NoRes
    /\ UNCHANGED <<nnTopology, nnGenome>>
    /\ UNCHANGED simVars

\* Network::from_weights(&nnTopology, nnGenome)
NNFromWeights ==
    /\ nnStatus = "new"
    /\ LET r == NetworkFromWeights(nnTopology, nnGenome)
       IN  /\ nnNet' = r.val
           /\ nnErr' = r.err
           /\ nnStatus' = IF r.err = "none" THEN "from_weights" ELSE "from_weights_panicked"
    /\ nnFlat' = NoFlat
    /\ nnRes' = NoRes
    /\ UNCHANGED <<nnTopology, nnGenome>>
    /\ UNCHANGED simVars

\* network.weights(), Brain::as_chromosome
NNWeights ==
    /\ nnStatus \in {"random", "from_weights", "reloaded"}
    /\ nnFlat' = IF nnStatus = "reloaded"
                 THEN [nnFlat EXCEPT !.redone = TRUE, !.reval = NetworkWeights(nnNet)]
                 ELSE [NoFlat EXCEPT !.done = TRUE, !.val = NetworkWeights(nnNet)]
    /\ nnRes' = NoRes
    /\ UNCHANGED <<nnTopology, nnGenome, nnNet, nnStatus, nnErr>>
    /\ UNCHANGED simVars

\* Network::from_weights(&nnTopology, network.weights()): the round trip of
\* tests::from_weights and of Brain::from_chromosome(brain.as_chromosome())
NNReload ==
    /\ nnStatus \in {"random", "from_weights"}
    /\ nnFlat.done
    /\ LET r == NetworkFromWeights(nnTopology, nnFlat.val)
       IN  /\ nnNet' = r.val
           /\ nnErr' = r.err
           /\ nnStatus' = IF r.err = "none" THEN "reloaded" ELSE "reload_panicked"
    /\ nnRes' = NoRes
    /\ UNCHANGED <<nnTopology, nnGenome, nnFlat>>
    /\ UNCHANGED simVars

\* network.propagate(inputs)
NNPropagate ==
    /\ nnStatus \in {"random", "from_weights", "reloaded"}
    /\ \E inputs \in InputVectors :
         LET r == NetworkPropagate(nnNet, inputs)
         IN  nnRes' = [done |-> TRUE, inputs |-> inputs, err |-> r.err, val |-> r.val]
    /\ UNCHANGED <<nnTopology, nnGenome, nnNet, nnStatus, nnErr, nnFlat>>
    /\ UNCHANGED simVars


(***************************************************************************)
(* Simulation: constants                                                   *)
(***************************************************************************)
GENERATION_LENGTH == 2500
SPEED_MIN == 1
SPEED_MAX == 5
SPEED_ACCEL == 200
ROTATION_ACCEL == 1571
\* the literal of `distance <= 0.013`
EatingThreshold == 13
\* GaussianMutation::new(0.01, 0.3): the coefficient
MutationCoeff == 300

(***************************************************************************)
(* The caller's rng: a cyclic stream of raw values; every draw maps the    *)
(* next raw value to the type asked for.                                   *)
(***************************************************************************)
\* the raw values one draw can take: every draw below maps them onto four
\* sample values of the type asked for
RawValues == 0..3

\* the k-th raw value of a stream
Raw(stream, k) == stream[((k - 1) % Len(stream)) + 1]

\* rng.random::<Point2<f32>>(): a point of [0,1) x [0,1)
PointOf(raw) ==
    LET pts == << <<500, 500>>, <<505, 512>>, <<0, 997>>, <<513, 501>> >>
    IN  pts[(raw % Len(pts)) + 1]

\* rng.random::<Rotation2<f32>>(): an angle
RotationOf(raw) ==
    LET rots == <<0, ROTATION_ACCEL, 2 * ROTATION_ACCEL, -ROTATION_ACCEL>>
    IN  rots[(raw % Len(rots)) + 1]

\* a speed within [SPEED_MIN, SPEED_MAX]
SpeedOf(raw) == SPEED_MIN + (raw % (SPEED_MAX - SPEED_MIN + 1))

\* rng.random_range(-1.0..=1.0): a weight or a bias
GeneOf(raw) ==
    LET genes == <<0, 1, -1000, 1000>>
    IN  genes[(raw % Len(genes)) + 1]

\* the streams explored: every period of StreamLen raw values
RngStreams == [1..StreamLen -> RawValues]

\* what Eye::process_vision is explored to return for one animal: nothing in
\* sight, or food at the animal's position in every cell
VisionVectors == {[k \in 1..EyeCells |-> v] : v \in {0, 1000}}

\* the streams Simulation::random is explored with
InitStreams == [1..(StreamLen + 1) -> RawValues]

\* the rng and the visions of Spec
FreeRng == [streams |-> RngStreams, visions |-> VisionVectors]

\* the rng and the visions of SpecGen: one stream, nothing in sight
FixedRng == [streams |-> {<<0>>}, visions |-> [1..EyeCells -> {0}]]

(***************************************************************************)
(* Brain                                                                   *)
(***************************************************************************)
\* Brain::topology
BrainTopology(cells) == <<cells, 2 * cells, 2>>

\* length of a chromosome of BrainTopology
BrainLen == RequiredFrom(BrainTopology(EyeCells), 1)

\* Brain::random, drawing from the stream after `used` draws
BrainRandom(stream, used) ==
    NetworkRandom(Collect([k \in 1..BrainLen |-> GeneOf(Raw(stream, used + k))], BrainLen),
                  BrainTopology(EyeCells)).val

\* Brain::from_chromosome
BrainFromChromosome(chromosome) ==
    NetworkFromWeights(BrainTopology(EyeCells), chromosome)

\* Brain::as_chromosome
BrainAsChromosome(brain) == NetworkWeights(brain)

(***************************************************************************)
(* Animal, Food, World                                                     *)
(***************************************************************************)
\* draws one animal takes: position, rotation, speed
AnimalDraws == 3

\* Animal::random, drawing from the stream after `used` draws
AnimalRandom(stream, used) ==
    [x         |-> PointOf(Raw(stream, used + 1))[1],
     y         |-> PointOf(Raw(stream, used + 1))[2],
     rotation  |-> RotationOf(Raw(stream, used + 2)),
     speed     |-> SpeedOf(Raw(stream, used + 3)),
     satiation |-> 0,
     brain     |-> BrainRandom(stream, used + AnimalDraws)]

\* AnimalIndividual::into_animal: the brain from the chromosome, the rest random
IntoAnimal(chromosome, stream, used) ==
    [x         |-> PointOf(Raw(stream, used + 1))[1],
     y         |-> PointOf(Raw(stream, used + 1))[2],
     rotation  |-> RotationOf(Raw(stream, used + 2)),
     speed     |-> SpeedOf(Raw(stream, used + 3)),
     satiation |-> 0,
     brain     |-> BrainFromChromosome(chromosome).val]

\* Food::random
FoodRandom(stream, used) == PointOf(Raw(stream, used + 1))

\* World::random
WorldRandom(stream) ==
    [animals |-> Collect([i \in 1..NumAnimals |->
                            AnimalRandom(stream, (i - 1) * (AnimalDraws + BrainLen))],
                         NumAnimals),
     foods   |-> Collect([j \in 1..NumFoods |->
                            FoodRandom(stream, NumAnimals * (AnimalDraws + BrainLen) + j - 1)],
                         NumFoods)]

(***************************************************************************)
(* Simulation::process_collisions                                          *)
(***************************************************************************)
\* square of na::distance(&animal.position, &food.position)
Distance2(animal, food) ==
    (animal.x - food[1]) * (animal.x - food[1]) + (animal.y - food[2]) * (animal.y - food[2])

\* distance < 0.013
Eats_Strict(animal, food) == Distance2(animal, food) < EatingThreshold * EatingThreshold

\* distance <= 0.013
Eats(animal, food) == Distance2(animal, food) <= EatingThreshold * EatingThreshold

\* satiation after `animal.satiation += 1`
Fed(satiation) == satiation + 1

RECURSIVE CollideFrom(_, _, _, _, _, _)
\* the two nested loops from pair p on, animals outer, foods inner; `used`
\* counts the draws taken, `events` lists the pairs that ate, in order
CollideFrom(as, fs, p, stream, used, events) ==
    IF p > NumAnimals * NumFoods
    THEN [animals |-> as, foods |-> fs, used |-> used, events |-> events]
    ELSE LET a == ((p - 1) \div NumFoods) + 1
             f == ((p - 1) % NumFoods) + 1
         IN  IF Eats(as[a], fs[f])
             THEN CollideFrom([as EXCEPT ![a].satiation = Fed(@)],
                              [fs EXCEPT ![f] = FoodRandom(stream, used)],
                              p + 1, stream, used + 1,
                              Append(events, [animal |-> a, food |-> f, at |-> fs[f]]))
             ELSE CollideFrom(as, fs, p + 1, stream, used, events)

\* Simulation::process_collisions
ProcessCollisions(as, fs, stream) == CollideFrom(as, fs, 1, stream, 0, <<>>)

(***************************************************************************)
(* Simulation::process_brains                                              *)
(***************************************************************************)
\* Rotation2::new(angle).angle(): the angle brought into (-pi, pi]
NormAngle(angle) ==
    LET turn == 4 * ROTATION_ACCEL
        m    == angle % turn
    IN  IF m > 2 * ROTATION_ACCEL THEN m - turn ELSE m

\* response[0] read as a signed command around SPEED_ACCEL / 2
SpeedDelta_Signed(response) == Clamp(response[1] - SPEED_ACCEL \div 2, -SPEED_ACCEL, SPEED_ACCEL)

\* response[0].clamp(-SPEED_ACCEL, SPEED_ACCEL)
SpeedDelta(response) == Clamp(response[1], -SPEED_ACCEL, SPEED_ACCEL)

\* response[1].clamp(-ROTATION_ACCEL, ROTATION_ACCEL)
RotationDelta(response) == Clamp(response[2], -ROTATION_ACCEL, ROTATION_ACCEL)

\* animal.speed + speed, not clamped
NewSpeed_Unclamped(speed, delta) == speed + delta

\* (animal.speed + speed).clamp(SPEED_MIN, SPEED_MAX)
NewSpeed(speed, delta) == Clamp(speed + delta, SPEED_MIN, SPEED_MAX)

\* animal.brain.nn.propagate(vision); the vision has Eye::cells entries, the
\* brain's first topology entry, so the assertion of propagate holds
Response(animal, vision) == NetworkPropagate(animal.brain, vision).val

\* the body of the loop of process_brains for one animal seeing `vision`
BrainStep(animal, vision) ==
    LET response == Response(animal, vision)
    IN  [animal EXCEPT !.speed = NewSpeed(@, SpeedDelta(response)),
                       !.rotation = NormAngle(@ + RotationDelta(response))]

\* Simulation::process_brains; vis[i] is what animal i's eye returns
ProcessBrains(as, vis) ==
    Collect([i \in 1..NumAnimals |-> BrainStep(as[i], vis[i])], NumAnimals)

(***************************************************************************)
(* Simulation::process_movements                                           *)
(***************************************************************************)
\* sine and cosine of an angle, as thousandths, at the nearest eighth of a turn
SinCos(angle) ==
    LET eighth == ROTATION_ACCEL \div 2
        k      == ((NormAngle(angle) + 4 * eighth + eighth \div 2) \div eighth) % 8
        table  == << <<0, -1000>>, <<-707, -707>>, <<-1000, 0>>, <<-707, 707>>,
                     <<0, 1000>>, <<707, 707>>, <<1000, 0>>, <<707, -707>> >>
    IN  table[k + 1]

\* animal.rotation * na::Vector2::new(0.0, animal.speed)
Advance(rotation, speed) ==
    <<-Mul(speed, SinCos(rotation)[1]), Mul(speed, SinCos(rotation)[2])>>

RECURSIVE WrapUp(_, _, _)
\* while val < min { val += width }
WrapUp(val, min, width) == IF val < min THEN WrapUp(val + width, min, width) ELSE val

RECURSIVE WrapDown(_, _, _)
\* while val > max { val -= width }
WrapDown(val, max, width) == IF val > max THEN WrapDown(val - width, max, width) ELSE val

\* na::wrap(val, min, max)
Wrap(val, min, max) ==
    IF val < min THEN WrapUp(val + (max - min), min, max - min)
    ELSE IF val > max THEN WrapDown(val - (max - min), max, max - min)
    ELSE val

\* the body of the loop of process_movements
MoveStep(animal) ==
    LET d == Advance(animal.rotation, animal.speed)
    IN  [animal EXCEPT !.x = Wrap(@ + d[1], 0, One), !.y = Wrap(@ + d[2], 0, One)]

\* Simulation::process_movements
ProcessMovements(as) == Collect([i \in 1..NumAnimals |-> MoveStep(as[i])], NumAnimals)

(***************************************************************************)
(* The genetic algorithm (lib_genetic_algorithm): roulette-wheel           *)
(* selection, uniform crossover, Gaussian mutation, statistics.            *)
(***************************************************************************)
RECURSIVE SumFitness(_, _)
\* sum of the fitness of individuals 1..n
SumFitness(pop, n) == IF n = 0 THEN 0 ELSE pop[n].fitness + SumFitness(pop, n - 1)

\* Statistics of a population: minimum, maximum and mean fitness
StatisticsOf(pop) ==
    [min |-> CHOOSE m \in {pop[i].fitness : i \in 1..Len(pop)} :
                \A i \in 1..Len(pop) : m <= pop[i].fitness,
     max |-> CHOOSE m \in {pop[i].fitness : i \in 1..Len(pop)} :
                \A i \in 1..Len(pop) : m >= pop[i].fitness,
     avg |-> (SumFitness(pop, Len(pop)) * One) \div Len(pop)]

\* RouletteWheelSelection::select: the first individual whose cumulative
\* fitness exceeds the draw; uniform over the population when all fitness is 0
Select(pop, raw) ==
    LET total == SumFitness(pop, Len(pop))
    IN  IF total = 0 THEN (raw % Len(pop)) + 1
        ELSE CHOOSE i \in 1..Len(pop) :
                /\ SumFitness(pop, i) > raw % total
                /\ \A j \in 1..(i - 1) : SumFitness(pop, j) <= raw % total

\* UniformCrossover::crossover: every gene from parent a or parent b
Crossover(pa, pb, stream, used) ==
    Collect([k \in 1..Len(pa) |-> IF Raw(stream, used + k) % 2 = 0 THEN pa[k] ELSE pb[k]],
            Len(pa))

\* GaussianMutation::mutate: three draws a gene (chance, sign, magnitude); the
\* gene is perturbed when its chance draw is 3, by less than the coefficient
Mutate(child, stream, used) ==
    Collect([k \in 1..Len(child) |->
        IF Raw(stream, used + 3 * (k - 1) + 1) % 4 = 3
        THEN child[k] + (IF Raw(stream, used + 3 * (k - 1) + 2) % 2 = 0 THEN 1 ELSE -1)
                        * ((MutationCoeff * (Raw(stream, used + 3 * (k - 1) + 3) % 4)) \div 4)
        ELSE child[k]], Len(child))

\* draws one child takes: two selections, crossover, mutation, into_animal
ChildDraws == 2 + 4 * BrainLen + AnimalDraws

\* the i-th child of GeneticAlgorithm::evolve, built into an animal
Child(pop, stream, used) ==
    LET pa      == pop[Select(pop, Raw(stream, used + 1))].chromosome
        pb      == pop[Select(pop, Raw(stream, used + 2))].chromosome
        crossed == Crossover(pa, pb, stream, used + 2)
        mutated == Mutate(crossed, stream, used + 2 + BrainLen)
    IN  IntoAnimal(mutated, stream, used + 2 + 4 * BrainLen)

(***************************************************************************)
(* Simulation::evolve, step, train                                         *)
(***************************************************************************)
\* AnimalIndividual::from_animal
FromAnimal(animal) ==
    [fitness |-> animal.satiation, chromosome |-> BrainAsChromosome(animal.brain)]

\* Simulation::evolve, drawing from the stream after `used` draws
Evolve(as, fs, stream, used) ==
    LET pop == Collect([i \in 1..NumAnimals |-> FromAnimal(as[i])], NumAnimals)
    IN  [age     |-> 0,
         animals |-> Collect([i \in 1..NumAnimals |->
                                Child(pop, stream, used + (i - 1) * ChildDraws)], NumAnimals),
         foods   |-> Collect([j \in 1..NumFoods |->
                                FoodRandom(stream, used + NumAnimals * ChildDraws + j - 1)],
                             NumFoods),
         stats   |-> StatisticsOf(pop)]

NoStats == [min |-> 0, max |-> 0, avg |-> 0]

\* self.age >= GENERATION_LENGTH
GenerationOver_AtLength(a) == a >= GENERATION_LENGTH

\* self.age > GENERATION_LENGTH + 1
GenerationOver_Late(a) == a > GENERATION_LENGTH + 1

\* self.age > GENERATION_LENGTH
GenerationOver(a) == a > GENERATION_LENGTH

\* Simulation::step: collisions, brains, movements, age += 1, then evolve
\* when the generation is over; obs keeps the values between the phases
StepBody(a, as, fs, stream, vis) ==
    LET c      == ProcessCollisions(as, fs, stream)
        brains == ProcessBrains(c.animals, vis)
        moved  == ProcessMovements(brains)
        aged   == a + 1
        o      == [preAge |-> a, pre |-> as, preFoods |-> fs,
                   fed |-> c.animals, fedFoods |-> c.foods, events |-> c.events,
                   response |-> Collect([i \in 1..NumAnimals |-> Response(c.animals[i], vis[i])],
                                        NumAnimals),
                   thought |-> brains, moved |-> moved]
    IN  IF GenerationOver(aged)
        THEN LET e == Evolve(moved, c.foods, stream, c.used)
             IN  [age |-> e.age, animals |-> e.animals, foods |-> e.foods,
                  ret |-> [some |-> TRUE, stats |-> e.stats], obs |-> o]
        ELSE [age |-> aged, animals |-> moved, foods |-> c.foods,
              ret |-> [some |-> FALSE, stats |-> NoStats], obs |-> o]

NoObs == [preAge |-> 0, pre |-> <<>>, preFoods |-> <<>>, fed |-> <<>>, fedFoods |-> <<>>,
          events |-> <<>>, response |-> <<>>, thought |-> <<>>, moved |-> <<>>]

\* simulation.step(rng)
Step(R) ==
    /\ pc = "idle"
    /\ \E stream \in R.streams, vis \in [1..NumAnimals -> R.visions] :
         \E s \in {StepBody(age, animals, foods, stream, vis)} :
             /\ age' = s.age
             /\ animals' = s.animals
             /\ foods' = s.foods
             /\ ret' = [op |-> "step", some |-> s.ret.some, stats |-> s.ret.stats]
             /\ obs' = s.obs
             /\ someCount' = IF stepCount < GENERATION_LENGTH + 1 /\ s.ret.some
                             THEN someCount + 1 ELSE someCount
    /\ stepCount' = Min(stepCount + 1, GENERATION_LENGTH + 2)
    /\ UNCHANGED <<pc, trainDue>>

\* simulation.train(rng) is called: the loop is entered, no step of this call
\* has run yet
TrainBegin ==
    /\ pc = "idle"
    /\ pc' = "train"
    /\ trainDue' = GENERATION_LENGTH + 1 - age
    /\ ret' = [op |-> "train", some |-> FALSE, stats |-> NoStats]
    /\ obs' = NoObs
    /\ stepCount' = GENERATION_LENGTH + 2
    /\ UNCHANGED <<age, animals, foods, someCount>>

\* one iteration of train's loop: `if let Some(summary) = self.step(rng)
\* { return summary; }`
TrainIter(R) ==
    /\ pc = "train"
    /\ \E stream \in R.streams, vis \in [1..NumAnimals -> R.visions] :
         \E s \in {StepBody(age, animals, foods, stream, vis)} :
             /\ age' = s.age
             /\ animals' = s.animals
             /\ foods' = s.foods
             /\ obs' = s.obs
             /\ ret' = [op |-> "train", some |-> s.ret.some, stats |-> s.ret.stats]
             /\ pc' = IF s.ret.some THEN "idle" ELSE "train"
    /\ trainDue' = trainDue - 1
    /\ UNCHANGED <<stepCount, someCount>>

(***************************************************************************)
(* Specifications                                                          *)
(***************************************************************************)
NoRet == [op |-> "none", some |-> FALSE, stats |-> NoStats]

\* ages the explored prefixes of Spec start from: a fresh simulation, and one
\* whose generation is about to end
InitAges == {0, GENERATION_LENGTH}

\* Simulation::random(rng) with the stream's world, at age a
SimStart(stream, a) ==
    /\ age = a
    /\ animals = WorldRandom(stream).animals
    /\ foods = WorldRandom(stream).foods
    /\ pc = "idle"
    /\ ret = NoRet
    /\ obs = NoObs
    /\ calls = 0
    /\ stepCount = IF a = 0 THEN 0 ELSE GENERATION_LENGTH + 2
    /\ someCount = 0
    /\ trainDue = 0

\* Spec: every stream's world, MaxCalls calls of step/train with any stream
Init == NNIdle /\ \E stream \in InitStreams, a \in InitAges : SimStart(stream, a)

SimStep ==
    /\ calls < MaxCalls
    /\ Step(FreeRng)
    /\ calls' = calls + 1
    /\ UNCHANGED nnVars

SimTrainBegin ==
    /\ calls < MaxCalls
    /\ TrainBegin
    /\ calls' = calls + 1
    /\ UNCHANGED nnVars

SimTrainIter ==
    /\ calls < MaxCalls + 1
    /\ TrainIter(FreeRng)
    /\ calls' = calls + 1
    /\ UNCHANGED nnVars

Next == SimStep \/ SimTrainBegin \/ SimTrainIter

Spec == Init /\ [][Next]_vars

\* SpecGen: one stream, whole generations
GenInit == NNIdle /\ SimStart(<<0>>, 0)

GenStep == Step(FixedRng) /\ UNCHANGED <<calls, nnTopology, nnGenome, nnNet, nnStatus, nnErr, nnFlat, nnRes>>

GenTrainBegin == TrainBegin /\ UNCHANGED <<calls, nnTopology, nnGenome, nnNet, nnStatus, nnErr, nnFlat, nnRes>>

GenTrainIter == TrainIter(FixedRng) /\ UNCHANGED <<calls, nnTopology, nnGenome, nnNet, nnStatus, nnErr, nnFlat, nnRes>>

GenNext == GenStep \/ GenTrainBegin \/ GenTrainIter

SpecGen == GenInit /\ [][GenNext]_vars

\* SpecNN: the network functions on every explored topology, genome and input
InitNN == NNInit /\ SimStart(<<0>>, 0)

NextNN == NNRandom \/ NNFromWeights \/ NNWeights \/ NNReload \/ NNPropagate

SpecNN == InitNN /\ [][NextNN]_vars

(***************************************************************************)
(* Claims                                                                  *)
(***************************************************************************)
\* number of scalars a topology requires: sum of (t[i] + 1) * t[i + 1]
Required(t) == RequiredFrom(t, 1)

\* the set of indices of a sequence
Indices(q) == 1..Len(q)

\* C1: step returns Some(Statistics) exactly when the age, incremented by the
\* call, exceeds GENERATION_LENGTH, and the age is 0 right after such a call; a
\* fresh simulation stepped GENERATION_LENGTH + 1 times returns None on the
\* first GENERATION_LENGTH calls and Statistics, once, on the last.
C1_StepReturnsStatistics ==
    /\ ret.op = "step" => (ret.some <=> obs.preAge + 1 > GENERATION_LENGTH)
    /\ ret.op = "step" /\ ret.some => age = 0
    /\ ret.op = "step" /\ ~ret.some => age = obs.preAge + 1
    /\ stepCount <= GENERATION_LENGTH => someCount = 0
    /\ stepCount = GENERATION_LENGTH + 1 => someCount = 1 /\ ret.some /\ age = 0

\* C1 witness: the fresh simulation has been stepped GENERATION_LENGTH + 1 times
C1_Witness ==
    /\ stepCount = GENERATION_LENGTH + 1
    /\ ret.op = "step" /\ ret.some
    /\ someCount = 1
    /\ obs.preAge = GENERATION_LENGTH

\* C7 (state part): while train's loop runs it still owes at least one
\* iteration and has returned nothing; when train has returned, it has run
\* GENERATION_LENGTH + 1 - a iterations, returned Statistics and left age = 0
TrainInv ==
    /\ pc = "train" => trainDue >= 1 /\ ~ret.some /\ age = GENERATION_LENGTH + 1 - trainDue
    /\ pc = "idle" /\ ret.op = "train" => ret.some /\ trainDue = 0 /\ age = 0

\* C7 (step part): every step taken while train's loop runs is one iteration:
\* it lowers the number of owed iterations by one, and it leaves the loop
\* exactly when none is owed any more
TrainStepsDown ==
    pc = "train" =>
        /\ trainDue' = trainDue - 1
        /\ pc' = IF trainDue' = 0 THEN "idle" ELSE "train"
        /\ ret'.some <=> trainDue' = 0

\* C7: train always terminates: called at age a it runs the step pipeline
\* exactly GENERATION_LENGTH + 1 - a times, stops at the first generation
\* boundary, returns its Statistics and leaves age = 0.
C7_TrainTerminates == []TrainInv /\ [][TrainStepsDown]_vars

\* C7 witness: a train call made in the middle of a generation has returned
C7_Witness ==
    /\ pc = "idle" /\ ret.op = "train" /\ ret.some
    /\ trainDue = 0 /\ age = 0
    /\ obs.preAge = GENERATION_LENGTH
    /\ stepCount = GENERATION_LENGTH + 2
    /\ someCount = 0

\* C2: from_weights on a topology of at least 2 entries panics with "not
\* enough" when the genome is shorter than required, with "too many" when it
\* is longer, and succeeds, keeping every scalar, when it has the exact length.
C2_FromWeightsLength ==
    (Len(nnTopology) >= 2 /\ nnStatus \in {"from_weights", "from_weights_panicked"}) =>
        /\ (Len(nnGenome) < Required(nnTopology)) <=> (nnErr = NotEnough)
        /\ (Len(nnGenome) > Required(nnTopology)) <=> (nnErr = TooMany)
        /\ (Len(nnGenome) = Required(nnTopology)) <=> (nnStatus = "from_weights")
        /\ nnStatus = "from_weights" => Len(NetworkWeights(nnNet)) = Len(nnGenome)

\* C2 witness: a genome one scalar too long for a three-layer topology was rejected
C2_Witness ==
    /\ Len(nnTopology) = 3
    /\ nnStatus = "from_weights_panicked"
    /\ nnErr = TooMany
    /\ Len(nnGenome) = Required(nnTopology) + 1
    /\ Required(nnTopology) >= 3

\* C3: the genome round trip is lossless: a network rebuilt from weights()
\* never fails and has the same weights() in the same order, and
\* from_weights(topology, w).weights() = w.
C3_RoundTrip ==
    /\ nnStatus # "reload_panicked"
    /\ nnFlat.redone => nnFlat.reval = nnFlat.val
    /\ nnStatus = "from_weights" /\ nnFlat.done => nnFlat.val = nnGenome

\* C3 witness: a network of two layers with distinct scalars went round
C3_Witness ==
    /\ nnFlat.redone
    /\ Len(nnTopology) = 3
    /\ Len(nnFlat.reval) >= 4
    /\ \E i, j \in Indices(nnFlat.reval) : nnFlat.reval[i] # nnFlat.reval[j]

\* C4: propagate on an input as long as the first topology entry returns a
\* vector as long as the last topology entry, with no negative element.
C4_PropagateShape ==
    (nnRes.done /\ Len(nnTopology) >= 2 /\ Len(nnRes.inputs) = nnTopology[1]) =>
        /\ nnRes.err = "none"
        /\ Len(nnRes.val) = nnTopology[Len(nnTopology)]
        /\ \A k \in Indices(nnRes.val) : nnRes.val[k] >= 0

\* C4 witness: a three-layer network returned a floored and a positive output
C4_Witness ==
    /\ nnRes.done /\ nnRes.err = "none"
    /\ Len(nnTopology) = 3
    /\ Len(nnRes.inputs) = nnTopology[1]
    /\ Len(nnRes.val) = 2
    /\ nnRes.val[1] = 0 /\ nnRes.val[2] > 0

\* C8 as stated: propagate on an input whose length differs from the first
\* topology entry never returns a result, whatever the topology.
C8_Original ==
    (nnRes.done /\ Len(nnRes.inputs) # nnTopology[1]) => nnRes.err # "none"

\* C8 amended: propagate on an input whose length differs from the first
\* topology entry fails when the second topology entry is at least 1; when the
\* first layer has no neuron no assertion is evaluated and propagate returns
\* the output of the remaining layers.
C8_MismatchFails ==
    (nnRes.done /\ Len(nnRes.inputs) # nnTopology[1]) =>
        /\ nnTopology[2] >= 1 => nnRes.err = LenMismatch
        /\ nnTopology[2] = 0 => nnRes.err = "none" /\ Len(nnRes.val) = nnTopology[Len(nnTopology)]

\* C8 witness: a mismatched input made a non-empty first layer fail
C8_Witness ==
    /\ nnRes.done
    /\ Len(nnRes.inputs) # nnTopology[1]
    /\ nnTopology[2] >= 1
    /\ nnRes.err = LenMismatch

\* number of events of the collision phase in which animal a ate
Meals(a) == Cardinality({k \in Indices(obs.events) : obs.events[k].animal = a})

\* food f was not respawned before animal a examined it
Untouched(a, f) ==
    \A k \in Indices(obs.events) : ~(obs.events[k].food = f /\ obs.events[k].animal < a)

C6_Original ==
    \A a \in Indices(animals) :
        /\ 0 <= animals[a].x /\ animals[a].x < One
        /\ 0 <= animals[a].y /\ animals[a].y < One

\* C9: the two brain outputs are clamped to the acceleration bounds before
\* use and the new speed is clamped to [SPEED_MIN, SPEED_MAX]: after the brain
\* phase every speed lies in that range, the speed changed by at most
\* SPEED_ACCEL and the heading turned by at most ROTATION_ACCEL.
C9_BoundedControl ==
    obs.pre # <<>> =>
        \A a \in 1..NumAnimals :
            LET before == obs.fed[a]
                after  == obs.thought[a]
                out    == obs.response[a]
            IN  /\ SPEED_MIN <= after.speed /\ after.speed <= SPEED_MAX
                /\ after.speed - before.speed <= SPEED_ACCEL
                /\ before.speed - after.speed <= SPEED_ACCEL
                /\ (out[1] <= SPEED_ACCEL /\ before.speed + out[1] <= SPEED_MAX)
                      => after.speed = before.speed + out[1]
                /\ before.speed + out[1] > SPEED_MAX => after.speed = SPEED_MAX
                /\ NormAngle(after.rotation - before.rotation) <= ROTATION_ACCEL
                /\ NormAngle(after.rotation - before.rotation) >= -ROTATION_ACCEL
                /\ out[2] > ROTATION_ACCEL
                      => NormAngle(after.rotation - before.rotation) = ROTATION_ACCEL
                /\ ~ret.some => animals[a].speed = after.speed

\* C9 witness: a brain asked for more than both bounds and was held to them
C9_Witness ==
    /\ obs.pre # <<>>
    /\ \E a \in 1..NumAnimals :
         /\ obs.response[a][1] > SPEED_ACCEL
         /\ obs.response[a][2] > ROTATION_ACCEL
         /\ obs.fed[a].speed < SPEED_MAX
         /\ obs.thought[a].speed = SPEED_MAX

\* C10: every brain output is >= 0, so a step never lowers the speed of an
\* animal whose speed is within [SPEED_MIN, SPEED_MAX] and never turns its
\* heading by a negative angle.
C10_NonNegativeControl ==
    obs.pre # <<>> =>
        \A a \in 1..NumAnimals :
            /\ obs.response[a][1] >= 0 /\ obs.response[a][2] >= 0
            /\ (SPEED_MIN <= obs.pre[a].speed /\ obs.pre[a].speed <= SPEED_MAX)
                  => /\ obs.thought[a].speed >= obs.pre[a].speed
                     /\ ~ret.some => animals[a].speed >= obs.pre[a].speed
            /\ NormAngle(obs.thought[a].rotation - obs.fed[a].rotation) >= 0

\* C10 witness: a brain answered with two positive outputs, the speed rose
\* and the heading turned forward
C10_Witness ==
    /\ obs.pre # <<>> /\ ~ret.some
    /\ \E a \in 1..NumAnimals :
         /\ obs.response[a][1] > 0 /\ obs.response[a][2] > 0
         /\ animals[a].speed > obs.pre[a].speed
         /\ NormAngle(animals[a].rotation - obs.pre[a].rotation) > 0

====
